---- MODULE Spec2Model ----
(***************************************************************************)
(* Model of the ZeroGPU bootstrap for Wan2GP: src/app.py (the module-level *)
(* startup sequence and its patch functions) and src/patch_gradio_args.py  *)
(* (the standalone wgp.py patch script).                                   *)
(*                                                                         *)
(* File contents are sequences of tokens.  Each token stands for one of    *)
(* the literal strings the patches search for, or for a character class    *)
(* of their regular expressions:                                           *)
(*   wrappers.py : F1 = get_context('fork')   S1 = get_context('spawn')    *)
(*                 F2 = get_context("fork")   S2 = get_context("spawn")    *)
(*                 P  = worker.arg_queue.put(((args, kwargs),              *)
(*                                     GradioPartialContext.get()))        *)
(*                 N  = worker.arg_queue.put(((args, kwargs), None))       *)
(*                 x  = any other text                                     *)
(*   offload.py  : T  = torch.nn.Buffer   "(" ")"   x = any other text     *)
(*   wgp.py      : "," " " "="  R = show_reset_button                      *)
(*                 D = show_download_button   a = a char of [a-zA-Z0-9_.]  *)
(***************************************************************************)
EXTENDS Integers, Sequences, FiniteSets, TLC

\* ------------------------------------------------------------------ bounds
MaxFileLen == 1
MaxWrappersLen == 3
MaxOffloadLen == 6
MaxWgpLen == 4
MaxApply == 2
MaxEnsureCalls == 2
MaxVal == 4

VARIABLES
    pc,              \* next module-level statement of app.py to execute
    trace,           \* the startup steps executed so far, in order
    abortedAt,       \* the step whose exception reached module level
    start_method,    \* multiprocessing's process-wide start method
    ForkingPickler,  \* multiprocessing.reduction.ForkingPickler
    wrappersFile,    \* text of spaces/zero/wrappers.py on disk
    wrappersLive,    \* runtime overrides applied to spaces.zero.wrappers
    bridgeInCache,   \* "mmgp.fp8_quanto_bridge" in sys.modules
    bridgeSyms,      \* attributes of that module: absent / real / stub
    offloadExists,   \* mmgp/offload.py exists
    offloadFile,     \* text of mmgp/offload.py on disk
    sliderPatched,   \* Slider.preprocess is the clamped wrapper
    app,             \* wgp.app
    lastConstruct,   \* outcome of the last WAN2GPApplication() attempt
    constructs,      \* number of construction attempts
    ensureCalls,     \* number of calls of ensure_wgp_plugin_app
    depImportSnap,   \* the bridge's sys.modules entry at the first import of mmgp / wgp
    lastReq,         \* last start method a dependency asked get_context for
    lastCtx,         \* kind of the context that request yielded
    outcome,         \* what the last patch step reported
    wrote,           \* whether the last patch step wrote its file
    wgpFile,         \* text of wgp.py on disk
    patchOp,         \* the text patch applied repeatedly to one file
    texts,           \* that file's text: initially, then after each application
    outcomes,        \* what each application reported
    writes,          \* whether each application wrote the file
    sl_min,          \* Slider.minimum, <<>> for None
    sl_max,          \* Slider.maximum, <<>> for None
    sl_x,            \* the payload given to Slider.preprocess, <<>> for None
    origArg,         \* the payload the original preprocess received
    origRet,         \* what the original preprocess returned
    ret              \* what Slider.preprocess returned to its caller

startupVars == <<pc, trace, abortedAt, start_method, ForkingPickler,
                 wrappersLive, bridgeInCache, bridgeSyms, app, lastConstruct,
                 constructs, ensureCalls, depImportSnap, lastReq, lastCtx>>
fileVars == <<wrappersFile, offloadExists, offloadFile, wgpFile, outcome, wrote>>
patchVars == <<patchOp, texts, outcomes, writes>>
sliderVars == <<sliderPatched, sl_min, sl_max, sl_x, origArg, origRet, ret>>

vars == <<startupVars, fileVars, patchVars, sliderVars>>

\* ------------------------------------------------------------ text helpers
Texts(alphabet, n) == UNION {[1..k -> alphabet] : k \in 0..n}

Contains(s, tok) == \E i \in 1..Len(s) : s[i] = tok

\* str.replace(old, new) for a one-token literal
Replace(s, old, new) == [i \in 1..Len(s) |-> IF s[i] = old THEN new ELSE s[i]]

At(s, i) == IF i >= 1 /\ i <= Len(s) THEN s[i] ELSE "EOF"

WrappersAlphabet == {"F1", "F2", "P", "x"}
OffloadAlphabet == {"T", "(", ")", "x"}
WgpAlphabet == {",", " ", "R", "D", "=", "a"}

\* the body of patch_spaces_zero_wrappers_on_disk between read_text and the
\* "if changed" test: the new text and the changed flag
patch_spaces_text(txt) ==
    LET t1 == IF Contains(txt, "F1") THEN Replace(txt, "F1", "S1") ELSE txt
        t2 == IF Contains(t1, "F2") THEN Replace(t1, "F2", "S2") ELSE t1
        t3 == IF Contains(t2, "P") THEN Replace(t2, "P", "N") ELSE t2
    IN  [txt |-> t3,
         changed |-> Contains(txt, "F1") \/ Contains(t1, "F2") \/ Contains(t2, "P")]

\* patch_spaces_zero_wrappers_on_disk as a function of the file and of what
\* the environment lets succeed: the import, the write, the reload
DiskPatch(txt, importOk, writeOk, reloadOk) ==
    LET r == patch_spaces_text(txt)
    IN  IF ~importOk THEN [txt |-> txt, outcome |-> "failed", wrote |-> FALSE]
        ELSE IF ~r.changed
             THEN [txt |-> txt, outcome |-> "no-patch-needed", wrote |-> FALSE]
        ELSE IF ~writeOk THEN [txt |-> txt, outcome |-> "failed", wrote |-> FALSE]
        ELSE IF ~reloadOk THEN [txt |-> r.txt, outcome |-> "failed", wrote |-> TRUE]
        ELSE [txt |-> r.txt, outcome |-> "applied", wrote |-> TRUE]

\* index of the first ")" at or after j, 0 when there is none: the end of
\* the lazy group (.*?) followed by \)
RECURSIVE FirstClose(_, _)
FirstClose(s, j) ==
    IF j > Len(s) THEN 0
    ELSE IF s[j] = ")" THEN j
    ELSE FirstClose(s, j + 1)

\* re.sub(r"torch\.nn\.Buffer\((.*?)\)", r"\1", text, flags=re.DOTALL),
\* scanning from position i
RECURSIVE SubBuffer(_, _)
SubBuffer(s, i) ==
    IF i > Len(s) THEN <<>>
    ELSE IF s[i] = "T" /\ At(s, i + 1) = "(" /\ FirstClose(s, i + 2) # 0
         THEN LET j == FirstClose(s, i + 2)
              IN  SubSeq(s, i + 2, j - 1) \o SubBuffer(s, j + 1)
         ELSE <<s[i]>> \o SubBuffer(s, i + 1)

\* patch_mmgp_offload after "import mmgp"
OffloadPatch(exists, txt, importOk, writeOk) ==
    LET new_text == SubBuffer(txt, 1)
    IN  IF ~importOk THEN [txt |-> txt, outcome |-> "failed", wrote |-> FALSE]
        ELSE IF ~exists
             THEN [txt |-> txt, outcome |-> "target-not-found", wrote |-> FALSE]
        ELSE IF ~Contains(txt, "T")
             THEN [txt |-> txt, outcome |-> "not-found-no-patch", wrote |-> FALSE]
        ELSE IF new_text = txt
             THEN [txt |-> txt, outcome |-> "no-change-needed", wrote |-> FALSE]
        ELSE IF ~writeOk THEN [txt |-> txt, outcome |-> "failed", wrote |-> FALSE]
        ELSE [txt |-> new_text, outcome |-> "applied", wrote |-> TRUE]

\* \s* from position i: the index of the first non-whitespace token
RECURSIVE SkipWs(_, _)
SkipWs(s, i) == IF At(s, i) = " " THEN SkipWs(s, i + 1) ELSE i

\* tokens made of characters of the class [a-zA-Z0-9_.]
WordTokens == {"a", "R", "D"}

\* [a-zA-Z0-9_.]* from position i
RECURSIVE SkipWord(_, _)
SkipWord(s, i) == IF At(s, i) \in WordTokens THEN SkipWord(s, i + 1) ELSE i

\* where a match of  <lead> key \s* = \s* [a-zA-Z0-9_.]+  that starts at i
\* ends (the index after it), 0 when there is no match at i; lead is ","
\* for the pattern ,\s*key...  and " " for the pattern \s+key...
MatchEnd(s, i, key, lead) ==
    LET j == SkipWs(s, i + 1)
        k == SkipWs(s, j + 1)
        m == SkipWs(s, k + 1)
    IN  IF At(s, i) = lead /\ At(s, j) = key /\ At(s, k) = "="
           /\ At(s, m) \in WordTokens
        THEN SkipWord(s, m + 1)
        ELSE 0

\* re.sub(pattern, '', content) scanning from position i
RECURSIVE SubArg(_, _, _, _)
SubArg(s, i, key, lead) ==
    IF i > Len(s) THEN <<>>
    ELSE IF MatchEnd(s, i, key, lead) # 0
         THEN SubArg(s, MatchEnd(s, i, key, lead), key, lead)
         ELSE <<s[i]>> \o SubArg(s, i + 1, key, lead)

\* the four re.sub calls of patch_wgp_py
patch_wgp_text(content) ==
    LET c1 == SubArg(content, 1, "R", ",")
        c2 == SubArg(c1, 1, "R", " ")
        c3 == SubArg(c2, 1, "D", ",")
    IN  SubArg(c3, 1, "D", " ")

\* patch_wgp_py: reads, substitutes, always writes, always reports success
WgpPatch(content) ==
    [txt |-> patch_wgp_text(content), outcome |-> "applied", wrote |-> TRUE]

\* ------------------------------------------------------------ startup order
\* the startup order with lines 270 and 271 exchanged
StartupOrder_OffloadFirst ==
    << "set_start_method",
       "patch_multiprocessing_cloudpickle",
       "import_spaces",
       "patch_spaces_zero_wrappers_on_disk",
       "patch_spaces_zero_wrappers_runtime",
       "patch_mmgp_offload",
       "preload_mmgp_fp8_bridge_stubs",
       "patch_gradio_slider_clamp",
       "import_wgp",
       "ensure_wgp_plugin_app",
       "create_ui" >>

StartupOrder ==
    << "set_start_method",
       "patch_multiprocessing_cloudpickle",
       "import_spaces",
       "patch_spaces_zero_wrappers_on_disk",
       "patch_spaces_zero_wrappers_runtime",
       "preload_mmgp_fp8_bridge_stubs",
       "patch_mmgp_offload",
       "patch_gradio_slider_clamp",
       "import_wgp",
       "ensure_wgp_plugin_app",
       "create_ui" >>

IndexOf(seq, e) == CHOOSE i \in 1..Len(seq) : seq[i] = e

\* the statement that follows step s at module level
NextStep(s) ==
    LET i == IndexOf(StartupOrder, s)
    IN  IF i = Len(StartupOrder) THEN "done" ELSE StartupOrder[i + 1]

StubSymbols == {"convert_scaled_fp8_to_quanto", "detect_safetensors_format",
                "load_quantized_model", "enable_fp8_marlin_fallback"}

NoSnap == [taken |-> FALSE, inCache |-> FALSE,
           syms |-> [s \in StubSymbols |-> "absent"]]

\* the bridge's entry in sys.modules as an import statement finds it; only
\* the first import of a dependency is recorded
SnapAtImport ==
    IF depImportSnap.taken THEN depImportSnap
    ELSE [taken |-> TRUE, inCache |-> bridgeInCache, syms |-> bridgeSyms]

\* a step returns normally (its own try/except included) and the next runs
Advance(step) ==
    /\ pc' = NextStep(step)
    /\ trace' = Append(trace, step)
    /\ abortedAt' = abortedAt

\* an exception leaves the step and reaches module level: the process ends
Abort(step) ==
    /\ pc' = "aborted"
    /\ trace' = Append(trace, step)
    /\ abortedAt' = step

\* the state every run starts from, whatever it then exercises
Fresh ==
    /\ trace = <<>>
    /\ abortedAt = "none"
    /\ ForkingPickler = "pickle"
    /\ wrappersLive = "original"
    /\ app = "None"
    /\ lastConstruct = "none"
    /\ constructs = 0
    /\ ensureCalls = 0
    /\ depImportSnap = NoSnap
    /\ lastReq = "none"
    /\ lastCtx = "none"
    /\ outcome = "none"
    /\ wrote = FALSE
    /\ outcomes = <<>>
    /\ writes = <<>>
    /\ origArg = <<>>
    /\ origRet = <<>>
    /\ ret = <<>>

Init ==
    /\ Fresh
    /\ pc = StartupOrder[1]
    /\ start_method \in {"fork", "spawn"}
    /\ wrappersFile \in Texts(WrappersAlphabet, MaxFileLen)
    /\ bridgeInCache \in BOOLEAN
    /\ bridgeSyms \in [StubSymbols -> {"absent", "real"}]
    /\ (~bridgeInCache => \A s \in StubSymbols : bridgeSyms[s] = "absent")
    /\ offloadExists \in BOOLEAN
    /\ offloadFile \in Texts(OffloadAlphabet, MaxFileLen)
    /\ (~offloadExists => offloadFile = <<>>)
    /\ wgpFile = <<>>
    /\ sliderPatched = FALSE
    /\ patchOp = "none"
    /\ texts = <<>>
    /\ sl_min = <<>> /\ sl_max = <<>> /\ sl_x = <<>>

\* app.py lines 15-19
set_start_method ==
    /\ pc = "set_start_method"
    /\ start_method' = "spawn"
    /\ Advance("set_start_method")
    /\ outcome' = "none" /\ wrote' = FALSE
    /\ UNCHANGED <<ForkingPickler, wrappersLive, bridgeInCache, bridgeSyms, app,
                   lastConstruct, constructs, ensureCalls, depImportSnap,
                   lastReq, lastCtx>>
    /\ UNCHANGED <<wrappersFile, offloadExists, offloadFile, wgpFile>>
    /\ UNCHANGED <<patchVars, sliderVars>>

\* app.py lines 26-61: "import cloudpickle" is inside no try
patch_multiprocessing_cloudpickle ==
    /\ pc = "patch_multiprocessing_cloudpickle"
    /\ \E importOk \in BOOLEAN :
         IF importOk
         THEN /\ ForkingPickler' = "cloudpickle"
              /\ Advance("patch_multiprocessing_cloudpickle")
         ELSE /\ ForkingPickler' = ForkingPickler
              /\ Abort("patch_multiprocessing_cloudpickle")
    /\ outcome' = "none" /\ wrote' = FALSE
    /\ UNCHANGED <<start_method, wrappersLive, bridgeInCache, bridgeSyms, app,
                   lastConstruct, constructs, ensureCalls, depImportSnap,
                   lastReq, lastCtx>>
    /\ UNCHANGED <<wrappersFile, offloadExists, offloadFile, wgpFile>>
    /\ UNCHANGED <<patchVars, sliderVars>>

\* app.py line 66
import_spaces ==
    /\ pc = "import_spaces"
    /\ \E importOk \in BOOLEAN :
         IF importOk THEN Advance("import_spaces") ELSE Abort("import_spaces")
    /\ outcome' = "none" /\ wrote' = FALSE
    /\ UNCHANGED <<start_method, ForkingPickler, wrappersLive, bridgeInCache,
                   bridgeSyms, app, lastConstruct, constructs, ensureCalls,
                   depImportSnap, lastReq, lastCtx>>
    /\ UNCHANGED <<wrappersFile, offloadExists, offloadFile, wgpFile>>
    /\ UNCHANGED <<patchVars, sliderVars>>

\* app.py lines 69-103, called at line 267
patch_spaces_zero_wrappers_on_disk ==
    /\ pc = "patch_spaces_zero_wrappers_on_disk"
    /\ \E importOk \in BOOLEAN, writeOk \in BOOLEAN, reloadOk \in BOOLEAN :
         LET r == DiskPatch(wrappersFile, importOk, writeOk, reloadOk)
         IN  /\ wrappersFile' = r.txt
             /\ outcome' = r.outcome
             /\ wrote' = r.wrote
    /\ Advance("patch_spaces_zero_wrappers_on_disk")
    /\ UNCHANGED <<start_method, ForkingPickler, wrappersLive, bridgeInCache,
                   bridgeSyms, app, lastConstruct, constructs, ensureCalls,
                   depImportSnap, lastReq, lastCtx>>
    /\ UNCHANGED <<offloadExists, offloadFile, wgpFile>>
    /\ UNCHANGED <<patchVars, sliderVars>>

\* app.py lines 106-145, called at line 268; line 116 asks get_context for
\* "spawn" itself
patch_spaces_zero_wrappers_runtime ==
    /\ pc = "patch_spaces_zero_wrappers_runtime"
    /\ \E importOk \in BOOLEAN :
         IF importOk
         THEN /\ lastReq' = "spawn"
              /\ lastCtx' = "spawn"
              /\ wrappersLive' = "spawn-process"
              /\ outcome' = "applied"
         ELSE /\ UNCHANGED <<lastReq, lastCtx, wrappersLive>>
              /\ outcome' = "failed"
    /\ wrote' = FALSE
    /\ Advance("patch_spaces_zero_wrappers_runtime")
    /\ UNCHANGED <<start_method, ForkingPickler, bridgeInCache, bridgeSyms, app,
                   lastConstruct, constructs, ensureCalls, depImportSnap>>
    /\ UNCHANGED <<wrappersFile, offloadExists, offloadFile, wgpFile>>
    /\ UNCHANGED <<patchVars, sliderVars>>

\* app.py lines 170-173 with the last assignment left out
AssignStubs_ThreeOnly(syms) ==
    [s \in StubSymbols |->
        IF s = "enable_fp8_marlin_fallback" THEN syms[s] ELSE "stub"]

\* app.py lines 170-173: the four attributes are assigned, whatever they were
AssignStubs(syms) == [s \in StubSymbols |-> "stub"]

\* app.py lines 148-175, called at line 270: the module is created when
\* absent from sys.modules, and the four attributes are assigned
preload_mmgp_fp8_bridge_stubs ==
    /\ pc = "preload_mmgp_fp8_bridge_stubs"
    /\ bridgeInCache' = TRUE
    /\ bridgeSyms' = AssignStubs(bridgeSyms)
    /\ outcome' = "applied" /\ wrote' = FALSE
    /\ Advance("preload_mmgp_fp8_bridge_stubs")
    /\ UNCHANGED <<start_method, ForkingPickler, wrappersLive, app,
                   lastConstruct, constructs, ensureCalls, depImportSnap,
                   lastReq, lastCtx>>
    /\ UNCHANGED <<wrappersFile, offloadExists, offloadFile, wgpFile>>
    /\ UNCHANGED <<patchVars, sliderVars>>

\* app.py lines 178-201, called at line 271; line 183 imports mmgp
patch_mmgp_offload ==
    /\ pc = "patch_mmgp_offload"
    /\ depImportSnap' = SnapAtImport
    /\ \E importOk \in BOOLEAN, writeOk \in BOOLEAN :
         LET r == OffloadPatch(offloadExists, offloadFile, importOk, writeOk)
         IN  /\ offloadFile' = r.txt
             /\ outcome' = r.outcome
             /\ wrote' = r.wrote
    /\ Advance("patch_mmgp_offload")
    /\ UNCHANGED <<start_method, ForkingPickler, wrappersLive, bridgeInCache,
                   bridgeSyms, app, lastConstruct, constructs, ensureCalls,
                   lastReq, lastCtx>>
    /\ UNCHANGED <<wrappersFile, offloadExists, wgpFile>>
    /\ UNCHANGED <<patchVars, sliderVars>>

\* app.py lines 204-230, called at line 273
patch_gradio_slider_clamp ==
    /\ pc = "patch_gradio_slider_clamp"
    /\ \E importOk \in BOOLEAN :
         /\ sliderPatched' = importOk
         /\ outcome' = IF importOk THEN "applied" ELSE "failed"
    /\ wrote' = FALSE
    /\ Advance("patch_gradio_slider_clamp")
    /\ UNCHANGED <<start_method, ForkingPickler, wrappersLive, bridgeInCache,
                   bridgeSyms, app, lastConstruct, constructs, ensureCalls,
                   depImportSnap, lastReq, lastCtx>>
    /\ UNCHANGED <<wrappersFile, offloadExists, offloadFile, wgpFile>>
    /\ UNCHANGED <<patchVars, sl_min, sl_max, sl_x, origArg, origRet, ret>>

\* app.py line 279: wgp may or may not define a global "app" of its own
import_wgp ==
    /\ pc = "import_wgp"
    /\ depImportSnap' = SnapAtImport
    /\ \E importOk \in BOOLEAN, ownApp \in {"None", "Existing"} :
         IF importOk
         THEN /\ app' = ownApp
              /\ Advance("import_wgp")
         ELSE /\ app' = app
              /\ Abort("import_wgp")
    /\ outcome' = "none" /\ wrote' = FALSE
    /\ UNCHANGED <<start_method, ForkingPickler, wrappersLive, bridgeInCache,
                   bridgeSyms, lastConstruct, constructs, ensureCalls,
                   lastReq, lastCtx>>
    /\ UNCHANGED <<wrappersFile, offloadExists, offloadFile, wgpFile>>
    /\ UNCHANGED <<patchVars, sliderVars>>

\* ensure_wgp_plugin_app whose except branch binds nothing
EnsureResult_NoFallback(cur, constructOk) ==
    IF cur # "None" THEN [app |-> cur, attempted |-> FALSE]
    ELSE [app |-> IF constructOk THEN "Real" ELSE "None", attempted |-> TRUE]

\* ensure_wgp_plugin_app without the early return of lines 237-239
EnsureResult_NoGuard(cur, constructOk) ==
    [app |-> IF constructOk THEN "Real" ELSE "Dummy", attempted |-> TRUE]

\* app.py lines 237-260: the binding ensure_wgp_plugin_app leaves, and
\* whether it tried to construct WAN2GPApplication
EnsureResult(cur, constructOk) ==
    IF cur # "None" THEN [app |-> cur, attempted |-> FALSE]
    ELSE [app |-> IF constructOk THEN "Real" ELSE "Dummy", attempted |-> TRUE]

\* app.py lines 233-261: called at line 281, and callable again on the same
\* module once it is bound
ensure_wgp_plugin_app ==
    /\ \/ pc = "ensure_wgp_plugin_app"
       \/ pc \in {"create_ui", "done"} /\ ensureCalls < MaxEnsureCalls
    /\ ensureCalls' = ensureCalls + 1
    /\ \E constructOk \in BOOLEAN :
         LET r == EnsureResult(app, constructOk)
         IN  /\ app' = r.app
             /\ constructs' = IF r.attempted THEN constructs + 1 ELSE constructs
             /\ lastConstruct' = IF ~r.attempted THEN lastConstruct
                                 ELSE IF constructOk THEN "ok" ELSE "failed"
    /\ IF pc = "ensure_wgp_plugin_app"
       THEN Advance("ensure_wgp_plugin_app")
       ELSE UNCHANGED <<pc, trace, abortedAt>>
    /\ outcome' = "none" /\ wrote' = FALSE
    /\ UNCHANGED <<start_method, ForkingPickler, wrappersLive, bridgeInCache,
                   bridgeSyms, depImportSnap, lastReq, lastCtx>>
    /\ UNCHANGED <<wrappersFile, offloadExists, offloadFile, wgpFile>>
    /\ UNCHANGED <<patchVars, sliderVars>>

\* app.py line 283
create_ui ==
    /\ pc = "create_ui"
    /\ \E buildOk \in BOOLEAN :
         IF buildOk THEN Advance("create_ui") ELSE Abort("create_ui")
    /\ outcome' = "none" /\ wrote' = FALSE
    /\ UNCHANGED <<start_method, ForkingPickler, wrappersLive, bridgeInCache,
                   bridgeSyms, app, lastConstruct, constructs, ensureCalls,
                   depImportSnap, lastReq, lastCtx>>
    /\ UNCHANGED <<wrappersFile, offloadExists, offloadFile, wgpFile>>
    /\ UNCHANGED <<patchVars, sliderVars>>

\* a dependency asks multiprocessing.get_context(method) after line 16 has
\* run; app.py installs nothing in front of get_context, so the request is
\* served by multiprocessing itself: the named context, or the default one
get_context ==
    /\ pc \notin {"set_start_method", "aborted"}
    /\ \E method \in {"fork", "spawn", "default"} :
         /\ lastReq' = method
         /\ lastCtx' = IF method = "default" THEN start_method ELSE method
    /\ UNCHANGED <<pc, trace, abortedAt, start_method, ForkingPickler,
                   wrappersLive, bridgeInCache, bridgeSyms, app, lastConstruct,
                   constructs, ensureCalls, depImportSnap>>
    /\ UNCHANGED <<fileVars, patchVars, sliderVars>>

Next ==
    \/ set_start_method
    \/ patch_multiprocessing_cloudpickle
    \/ import_spaces
    \/ patch_spaces_zero_wrappers_on_disk
    \/ patch_spaces_zero_wrappers_runtime
    \/ preload_mmgp_fp8_bridge_stubs
    \/ patch_mmgp_offload
    \/ patch_gradio_slider_clamp
    \/ import_wgp
    \/ ensure_wgp_plugin_app
    \/ create_ui
    \/ get_context

Spec == Init /\ [][Next]_vars

\* ------------------------------------------- the text patches, run again
\* One of the three on-disk patches is applied MaxApply times to one file,
\* in an environment where its import, its write and its reload succeed.
PatchOps == {"patch_spaces_zero_wrappers_on_disk", "patch_mmgp_offload",
             "patch_wgp_py"}

InitText ==
    /\ Fresh
    /\ pc = "patching"
    /\ start_method = "spawn"
    /\ bridgeInCache = FALSE
    /\ bridgeSyms = [s \in StubSymbols |-> "absent"]
    /\ sliderPatched = FALSE
    /\ sl_min = <<>> /\ sl_max = <<>> /\ sl_x = <<>>
    /\ offloadExists = TRUE
    /\ patchOp \in PatchOps
    /\ wrappersFile \in IF patchOp = "patch_spaces_zero_wrappers_on_disk"
                        THEN Texts(WrappersAlphabet, MaxWrappersLen) ELSE {<<>>}
    /\ offloadFile \in IF patchOp = "patch_mmgp_offload"
                       THEN Texts(OffloadAlphabet, MaxOffloadLen) ELSE {<<>>}
    /\ wgpFile \in IF patchOp = "patch_wgp_py"
                   THEN Texts(WgpAlphabet, MaxWgpLen) ELSE {<<>>}
    /\ texts = << CASE patchOp = "patch_spaces_zero_wrappers_on_disk" -> wrappersFile
                    [] patchOp = "patch_mmgp_offload" -> offloadFile
                    [] OTHER -> wgpFile >>

Record(r) ==
    /\ texts' = Append(texts, r.txt)
    /\ outcomes' = Append(outcomes, r.outcome)
    /\ writes' = Append(writes, r.wrote)
    /\ outcome' = r.outcome
    /\ wrote' = r.wrote
    /\ UNCHANGED <<startupVars, sliderVars, patchOp, offloadExists>>

\* app.py lines 69-103
run_patch_spaces_zero_wrappers_on_disk ==
    /\ patchOp = "patch_spaces_zero_wrappers_on_disk"
    /\ Len(outcomes) < MaxApply
    /\ LET r == DiskPatch(wrappersFile, TRUE, TRUE, TRUE)
       IN  wrappersFile' = r.txt /\ Record(r)
    /\ UNCHANGED <<offloadFile, wgpFile>>

\* app.py lines 178-201
run_patch_mmgp_offload ==
    /\ patchOp = "patch_mmgp_offload"
    /\ Len(outcomes) < MaxApply
    /\ LET r == OffloadPatch(offloadExists, offloadFile, TRUE, TRUE)
       IN  offloadFile' = r.txt /\ Record(r)
    /\ UNCHANGED <<wrappersFile, wgpFile>>

\* patch_gradio_args.py lines 7-26
patch_wgp_py ==
    /\ patchOp = "patch_wgp_py"
    /\ Len(outcomes) < MaxApply
    /\ LET r == WgpPatch(wgpFile)
       IN  wgpFile' = r.txt /\ Record(r)
    /\ UNCHANGED <<wrappersFile, offloadFile>>

NextText ==
    \/ run_patch_spaces_zero_wrappers_on_disk
    \/ run_patch_mmgp_offload
    \/ patch_wgp_py

SpecText == InitText /\ [][NextText]_vars

\* ------------------------------------------------- the slider override
Values == 0..MaxVal
Optional == {<<>>} \cup {<<v>> : v \in Values}

\* clamped without the comparison with the maximum
clamped_NoMax(mn, mx, x) ==
    IF mn # <<>> /\ x # <<>> /\ x[1] < mn[1] THEN mn ELSE x

\* app.py lines 213-225, the payload that clamped hands to orig; "is not
\* None" is "# <<>>".  Bounds and payload are numbers or None, so neither
\* comparison raises and the except branch of line 223 is never taken.
clamped(mn, mx, x) ==
    LET x1 == IF mn # <<>> /\ x # <<>> /\ x[1] < mn[1] THEN mn ELSE x
    IN  IF mx # <<>> /\ x1 # <<>> /\ x1[1] > mx[1] THEN mx ELSE x1

InitSlider ==
    /\ Fresh
    /\ pc = "serving"
    /\ start_method = "spawn"
    /\ bridgeInCache = FALSE
    /\ bridgeSyms = [s \in StubSymbols |-> "absent"]
    /\ wrappersFile = <<>> /\ offloadFile = <<>> /\ wgpFile = <<>>
    /\ offloadExists = FALSE
    /\ patchOp = "none"
    /\ texts = <<>>
    /\ sliderPatched \in BOOLEAN
    /\ sl_min \in Optional
    /\ sl_max \in Optional
    /\ sl_x \in Optional

\* a request reaches Slider.preprocess: the clamped wrapper when line 227
\* installed it, the original otherwise; the original returns some payload
Slider_preprocess ==
    /\ pc = "serving"
    /\ pc' = "served"
    /\ origArg' = IF sliderPatched THEN clamped(sl_min, sl_max, sl_x) ELSE sl_x
    /\ \E r \in Optional : origRet' = r /\ ret' = r
    /\ UNCHANGED <<trace, abortedAt, start_method, ForkingPickler,
                   wrappersLive, bridgeInCache, bridgeSyms, app, lastConstruct,
                   constructs, ensureCalls, depImportSnap, lastReq, lastCtx>>
    /\ UNCHANGED <<fileVars, patchVars, sliderPatched, sl_min, sl_max, sl_x>>

NextSlider == Slider_preprocess

SpecSlider == InitSlider /\ [][NextSlider]_vars

\* ================================================================ claims

\* C1: once ensure_wgp_plugin_app has returned, wgp.app is not None: it is
\* the real WAN2GPApplication when the construction attempt succeeded and the
\* dummy when it failed; so it is in the state where create_ui is called.
C1_AppBoundAfterEnsure ==
    ensureCalls > 0 =>
        /\ app # "None"
        /\ lastConstruct = "ok" => app = "Real"
        /\ lastConstruct = "failed" => app = "Dummy"
        /\ lastConstruct = "none" => app = "Existing"

C1_Witness ==
    pc = "create_ui" /\ ensureCalls = 1 /\ lastConstruct = "failed" /\ app = "Dummy"

\* C2: no step of the startup pipeline lets an exception reach module level
\* (pickler patch, spaces on-disk patch, spaces runtime patch, stub preload,
\* mmgp offload patch, slider clamp patch, plugin resolver).
PipelineSteps ==
    {"patch_multiprocessing_cloudpickle", "patch_spaces_zero_wrappers_on_disk",
     "patch_spaces_zero_wrappers_runtime", "preload_mmgp_fp8_bridge_stubs",
     "patch_mmgp_offload", "patch_gradio_slider_clamp", "ensure_wgp_plugin_app"}

C2_NoStepAborts == abortedAt \notin PipelineSteps

\* C3: when the bridge module is already in the import cache, the preload
\* leaves every stub symbol that is already present with its existing value.
C3_PresentSymbolsKept ==
    [][(pc = "preload_mmgp_fp8_bridge_stubs" /\ pc' # pc /\ bridgeInCache)
         => \A s \in StubSymbols :
               bridgeSyms[s] # "absent" => bridgeSyms'[s] = bridgeSyms[s]]_vars

\* C4: at the first import of a dependency that references them (import mmgp
\* in patch_mmgp_offload, import wgp), mmgp.fp8_quanto_bridge is in the
\* import cache and has all four stub symbols.
C4_StubsBeforeDepImport ==
    depImportSnap.taken =>
        /\ depImportSnap.inCache
        /\ \A s \in StubSymbols : depImportSnap.syms[s] # "absent"

C4_Witness ==
    /\ pc = "patch_gradio_slider_clamp"
    /\ depImportSnap.taken
    /\ \A s \in StubSymbols : depImportSnap.syms[s] = "stub"

\* outcomes that report that nothing had to be done
SkipOutcomes == {"no-patch-needed", "not-found-no-patch", "no-change-needed",
                 "target-not-found"}

\* C5: every on-disk text patch is idempotent: a second application leaves
\* the file as the first left it, and when the first reported "applied" the
\* second reports that nothing was left to do.
C5_Idempotent ==
    Len(outcomes) >= 2 =>
        /\ texts[3] = texts[2]
        /\ outcomes[1] = "applied" => outcomes[2] \in SkipOutcomes

\* no find pattern of the patch occurs in the text
NoOccurrence(op, txt) ==
    CASE op = "patch_spaces_zero_wrappers_on_disk" ->
            ~Contains(txt, "F1") /\ ~Contains(txt, "F2") /\ ~Contains(txt, "P")
      [] op = "patch_mmgp_offload" -> ~Contains(txt, "T")
      [] OTHER ->
            \A i \in 1..Len(txt) : \A key \in {"R", "D"} : \A lead \in {",", " "} :
                MatchEnd(txt, i, key, lead) = 0

\* C6: a text patch whose file has no occurrence of any of its find patterns
\* writes nothing, leaves the content as it is and reports a skip.
C6_NoOccurrenceNoWrite ==
    \A k \in 1..Len(outcomes) :
        NoOccurrence(patchOp, texts[k]) =>
            /\ ~writes[k]
            /\ texts[k + 1] = texts[k]
            /\ outcomes[k] \in SkipOutcomes

\* C7: after the execution context configuration, a request of a dependency
\* for the "fork" context is answered with a "spawn" context.
C7_ForkRedirected == lastReq = "fork" => lastCtx = "spawn"

\* the component of section 2 a step belongs to, in the order of section 2;
\* the pickler patch reconfigures multiprocessing and is counted with the
\* execution context configuration, the imports belong to no component
Rank(step) ==
    CASE step \in {"set_start_method", "patch_multiprocessing_cloudpickle"} -> 1
      [] step = "preload_mmgp_fp8_bridge_stubs" -> 2
      [] step \in {"patch_spaces_zero_wrappers_on_disk", "patch_mmgp_offload"} -> 3
      [] step \in {"patch_spaces_zero_wrappers_runtime",
                   "patch_gradio_slider_clamp"} -> 4
      [] step = "ensure_wgp_plugin_app" -> 5
      [] step = "create_ui" -> 6
      [] OTHER -> 0

\* C8 as stated: no step of a later component runs before a step of an
\* earlier component (context, stubs, text patches, runtime overrides,
\* plugin resolver, hand-off).
C8_ComponentOrder ==
    \A i \in 1..Len(trace) : \A j \in 1..Len(trace) :
        (i < j /\ Rank(trace[i]) # 0 /\ Rank(trace[j]) # 0)
            => Rank(trace[i]) <= Rank(trace[j])

\* b runs only after a has run
Precedes(a, b) ==
    \A j \in 1..Len(trace) : trace[j] = b => \E i \in 1..(j - 1) : trace[i] = a

\* C8 amended: the steps run once each in the fixed order of the source:
\* context configuration, pickler override, import of spaces, spaces on-disk
\* patch, spaces runtime override, stub injection, mmgp on-disk patch, slider
\* override, import of wgp, plugin resolver, create_ui.
C8_SourceOrder ==
    /\ Len(trace) > 0 => trace[1] = "set_start_method"
    /\ \A i \in 1..Len(trace) : \A j \in 1..Len(trace) :
          trace[i] = trace[j] => i = j
    /\ Precedes("set_start_method", "patch_multiprocessing_cloudpickle")
    /\ Precedes("patch_multiprocessing_cloudpickle", "import_spaces")
    /\ Precedes("import_spaces", "patch_spaces_zero_wrappers_on_disk")
    /\ Precedes("patch_spaces_zero_wrappers_on_disk",
                "patch_spaces_zero_wrappers_runtime")
    /\ Precedes("patch_spaces_zero_wrappers_runtime",
                "preload_mmgp_fp8_bridge_stubs")
    /\ Precedes("preload_mmgp_fp8_bridge_stubs", "patch_mmgp_offload")
    /\ Precedes("patch_mmgp_offload", "patch_gradio_slider_clamp")
    /\ Precedes("patch_gradio_slider_clamp", "import_wgp")
    /\ Precedes("import_wgp", "ensure_wgp_plugin_app")
    /\ Precedes("ensure_wgp_plugin_app", "create_ui")

C8_Witness == pc = "done" /\ Len(trace) = 11

\* C9: for a slider with minimum <= maximum and a numeric payload x, the
\* original preprocess receives minimum when x < minimum, maximum when
\* x > maximum and x otherwise, and the override returns what it returns.
C9_ClampContract ==
    (/\ pc = "served" /\ sliderPatched
     /\ sl_min # <<>> /\ sl_max # <<>> /\ sl_x # <<>>
     /\ sl_min[1] <= sl_max[1])
    => /\ origArg = IF sl_x[1] < sl_min[1] THEN sl_min
                    ELSE IF sl_x[1] > sl_max[1] THEN sl_max
                    ELSE sl_x
       /\ ret = origRet

C9_Witness ==
    /\ pc = "served" /\ sliderPatched
    /\ sl_min = <<1>> /\ sl_max = <<3>> /\ sl_x = <<4>>
    /\ origArg = <<3>> /\ ret = origRet

\* C10: once wgp.app is bound, no call of ensure_wgp_plugin_app rebinds it
\* or attempts a construction.
C10_BindingTerminal ==
    [][app # "None" => (app' = app /\ constructs' = constructs)]_vars

C10_Witness ==
    ensureCalls >= 2 /\ constructs = 1 /\ app = "Dummy"
====
